---- MODULE Spec2Model ----
(***************************************************************************)
(* pepperoni.py: fetch a URL, extract a fragment of the response with a    *)
(* CSS-like selector or a regular expression, and poll for changes.        *)
(*                                                                         *)
(* Strings are sequences of one-character strings.  An optional value is   *)
(* None (the empty tuple) or Some(v) (the one-element tuple holding v).    *)
(* Four specifications share the variables:                                *)
(*   SpecSelector  the selector compiler (get_selector) on one tag;        *)
(*   SpecMatcher   one HTMLParser object consuming tokenizer events;       *)
(*   SpecPoll      the program from its entry point: fetch, report, poll;  *)
(*   SpecExtract   query_html called repeatedly, and one HTMLParser reused *)
(*                 across documents with reset().                          *)
(***************************************************************************)
EXTENDS Integers, Sequences, FiniteSets, TLC

VARIABLES
    \* SpecSelector
    sel_pc,        \* "init" | "compiled" | "applied"
    sel_query,     \* the selector string given to HTMLParser.__init__
    sel_tag,       \* the tag name a step is evaluated on
    sel_attrs,     \* its attribute list
    sel_steps,     \* self._all_selectors (each step is the token it closes over)
    sel_outcomes,  \* the outcome of each step on (sel_tag, sel_attrs)
    \* SpecMatcher
    parser,        \* the HTMLParser object (self)
    events,        \* the handler calls the tokenizer has made so far
    \* SpecPoll
    pc,            \* "main" | "fetch" | "sleep" | "cycle" | "done" | "crashed"
    args,          \* vars(parser.parse_args())
    response,      \* what the server answered to the last request
    result,        \* pepperoni's local `result`
    prev,          \* pepperoni's local `prev`
    out,           \* what the last fetch-and-report step logged and signalled
    fetched,       \* the value every completed request_and_query returned
    requests,      \* the number of urlopen calls so far
    failure,       \* the uncaught exception that ended the program, or "none"
    \* SpecExtract (with parser)
    ex_pc,         \* "call": query_html is called again and again;
                   \* "fresh" | "fed" | "reset": one HTMLParser is fed, reset, fed
    ex_query,      \* the selector of every run
    ex_regex,      \* the regex of every run
    ex_runs        \* each finished run: the document and what the run gave

selVars  == <<sel_pc, sel_query, sel_tag, sel_attrs, sel_steps, sel_outcomes>>
mVars    == <<parser, events>>
pollVars == <<pc, args, response, result, prev, out, fetched, requests, failure>>
exVars   == <<ex_pc, ex_query, ex_regex, ex_runs>>
vars     == <<selVars, mVars, pollVars, exVars>>

\* The longest event stream SpecMatcher feeds to one parser.
MaxEvents == 4
\* The most requests SpecPoll lets the poll loop make.
MaxFetches == 3
\* The most documents SpecExtract runs through one selector.
MaxRuns == 3

None == <<>>
Some(v) == <<v>>

(***************************************************************************)
(* Python string helpers                                                   *)
(***************************************************************************)

\* s[1:]
StrTail(s) == SubSeq(s, 2, Len(s))

\* s.startswith(c) for a one-character c
startswith(s, c) == Len(s) >= 1 /\ s[1] = c

\* the sequence `parts` joined into one string
RECURSIVE Concat(_)
Concat(parts) ==
    IF parts = <<>> THEN <<>> ELSE Head(parts) \o Concat(Tail(parts))

\* s.split(" "): cut at every single space, empty pieces kept
RECURSIVE split(_)
split(s) ==
    LET spaces == {i \in 1..Len(s) : s[i] = " "}
    IN  IF spaces = {} THEN <<s>>
        ELSE LET i == CHOOSE k \in spaces : \A j \in spaces : k <= j
             IN  <<SubSeq(s, 1, i - 1)>> \o split(SubSeq(s, i + 1, Len(s)))

\* x in seq
In(x, seq) == \E i \in 1..Len(seq) : seq[i] = x

(***************************************************************************)
(* re.search for a compiled pattern that is an alternation of literals,    *)
(* alt1|alt2|...: the leftmost position where an alternative matches, and  *)
(* at that position the first alternative that does.                       *)
(***************************************************************************)
MatchesAt(alt, text, i) ==
    /\ i + Len(alt) - 1 <= Len(text)
    /\ SubSeq(text, i, i + Len(alt) - 1) = alt

re_search(pattern, text) ==
    LET hits == {i \in 1..(Len(text) + 1) :
                    \E a \in 1..Len(pattern) : MatchesAt(pattern[a], text, i)}
    IN  IF hits = {} THEN None
        ELSE LET i == CHOOSE k \in hits : \A j \in hits : k <= j
                 a == CHOOSE k \in 1..Len(pattern) :
                        /\ MatchesAt(pattern[k], text, i)
                        /\ \A j \in 1..(k - 1) : ~MatchesAt(pattern[j], text, i)
             IN  Some(SubSeq(text, i, i + Len(pattern[a]) - 1))

(***************************************************************************)
(* get_selector: the step compiled from token s, evaluated on a start-tag. *)
(* The outcome is "True", "False" or the exception the lambda raises.      *)
(* An attribute is <<name, value>>, value None for an attribute without    *)
(* one (<div class>).                                                      *)
(***************************************************************************)

\* any(name == "id" and s[1:] == value for (name, value) in attrs)
any_id(s, attrs) ==
    IF \E i \in 1..Len(attrs) : attrs[i][1] = "id" /\ attrs[i][2] = Some(StrTail(s))
    THEN "True" ELSE "False"

\* Mutant of any_class: `s[1:] in value`, a substring test instead of a test
\* against the pieces of value.split(" ").
RECURSIVE any_class_substring(_, _)
any_class_substring(s, attrs) ==
    IF attrs = <<>> THEN "False"
    ELSE LET name  == Head(attrs)[1]
             value == Head(attrs)[2]
         IN  IF name # "class" THEN any_class_substring(s, Tail(attrs))
             ELSE IF value = None THEN "AttributeError"
             ELSE IF \E i \in 1..(Len(value[1]) + 1) : MatchesAt(StrTail(s), value[1], i)
                  THEN "True"
             ELSE any_class_substring(s, Tail(attrs))

\* any(name == "class" and s[1:] in value.split(" ") for (name, value) in attrs),
\* evaluated left to right: value.split raises on a value of None.
RECURSIVE any_class(_, _)
any_class(s, attrs) ==
    IF attrs = <<>> THEN "False"
    ELSE LET name  == Head(attrs)[1]
             value == Head(attrs)[2]
         IN  IF name # "class" THEN any_class(s, Tail(attrs))
             ELSE IF value = None THEN "AttributeError"
             ELSE IF In(StrTail(s), split(value[1])) THEN "True"
             ELSE any_class(s, Tail(attrs))

get_selector(s, tag, attrs) ==
    IF startswith(s, "#") THEN any_id(s, attrs)
    ELSE IF startswith(s, ".") THEN any_class(s, attrs)
    ELSE IF s = tag THEN "True" ELSE "False"

\* [get_selector(s) for s in query.split(" ") if s]
RECURSIVE NonEmpty(_)
NonEmpty(parts) ==
    IF parts = <<>> THEN <<>>
    ELSE IF Head(parts) = <<>> THEN NonEmpty(Tail(parts))
    ELSE <<Head(parts)>> \o NonEmpty(Tail(parts))

compile_selectors(query) == NonEmpty(split(query))

(***************************************************************************)
(* class HTMLParser: the streaming tag matcher.  A stack marker is         *)
(* Some(i), the index of the step the tag consumed, or None.  `err` is the *)
(* exception a handler raised ("none" while there is none): it leaves the  *)
(* handler, feed() and query_html(), so no later event is handled.         *)
(***************************************************************************)

\* HTMLParser.__init__(query, regex)
HTMLParser_init(query, regex) ==
    [ all_selectors   |-> compile_selectors(query),
      selector_cursor |-> 0,
      stack           |-> <<>>,
      regex           |-> regex,
      match           |-> None,
      err             |-> "none" ]

\* HTMLParser.reset(), as called between documents: the match is kept
reset(self) ==
    [self EXCEPT !.stack = <<>>, !.selector_cursor = 0]

\* Mutant of handle_starttag: a tag that does not match pushes no marker.
handle_starttag_skips_unmatched(self, tag, attrs) ==
    IF Len(self.all_selectors) > self.selector_cursor
    THEN LET fn == get_selector(self.all_selectors[self.selector_cursor + 1], tag, attrs)
         IN  IF fn = "True"
             THEN [self EXCEPT !.stack = Append(@, Some(self.selector_cursor)),
                               !.selector_cursor = @ + 1]
             ELSE IF fn = "False"
             THEN self
             ELSE [self EXCEPT !.err = fn]
    ELSE self

\* Mutant of handle_starttag: the tag is tested against every step from the
\* cursor on, not only the step at the cursor.
handle_starttag_any_step(self, tag, attrs) ==
    IF \E k \in (self.selector_cursor + 1)..Len(self.all_selectors) :
          get_selector(self.all_selectors[k], tag, attrs) = "True"
    THEN [self EXCEPT !.stack = Append(@, Some(self.selector_cursor)),
                      !.selector_cursor = @ + 1]
    ELSE [self EXCEPT !.stack = Append(@, None)]

handle_starttag(self, tag, attrs) ==
    IF Len(self.all_selectors) > self.selector_cursor
    THEN LET fn == get_selector(self.all_selectors[self.selector_cursor + 1], tag, attrs)
         IN  IF fn = "True"
             THEN [self EXCEPT !.stack = Append(@, Some(self.selector_cursor)),
                               !.selector_cursor = @ + 1]
             ELSE IF fn = "False"
             THEN [self EXCEPT !.stack = Append(@, None)]
             ELSE [self EXCEPT !.err = fn]
    ELSE [self EXCEPT !.stack = Append(@, None)]

\* Mutant of handle_endtag: the pop never rolls the cursor back.
handle_endtag_keeps_cursor(self, tag) ==
    IF self.stack = <<>>
    THEN [self EXCEPT !.err = "IndexError"]
    ELSE [self EXCEPT !.stack = SubSeq(@, 1, Len(@) - 1)]

\* self._stack.pop() raises IndexError on an empty list
handle_endtag(self, tag) ==
    IF self.stack = <<>>
    THEN [self EXCEPT !.err = "IndexError"]
    ELSE LET top == self.stack[Len(self.stack)]
         IN  [self EXCEPT !.stack = SubSeq(@, 1, Len(@) - 1),
                          !.selector_cursor = IF top # None THEN @ - 1 ELSE @]

\* Mutant of handle_data: a match already recorded is overwritten.
handle_data_last_wins(self, data) ==
    IF Len(self.all_selectors) = self.selector_cursor
    THEN IF self.regex # None
         THEN LET regex_match == re_search(self.regex[1], data)
              IN  IF regex_match # None
                  THEN [self EXCEPT !.match = regex_match]
                  ELSE self
         ELSE [self EXCEPT !.match = Some(data)]
    ELSE self

\* Mutant of handle_data: the cursor is not compared with the number of steps.
handle_data_any_depth(self, data) ==
    IF self.match = None
    THEN IF self.regex # None
         THEN LET regex_match == re_search(self.regex[1], data)
              IN  IF regex_match # None
                  THEN [self EXCEPT !.match = regex_match]
                  ELSE self
         ELSE [self EXCEPT !.match = Some(data)]
    ELSE self

handle_data(self, data) ==
    IF self.match = None /\ Len(self.all_selectors) = self.selector_cursor
    THEN IF self.regex # None
         THEN LET regex_match == re_search(self.regex[1], data)
              IN  IF regex_match # None
                  THEN [self EXCEPT !.match = regex_match]
                  ELSE self
         ELSE [self EXCEPT !.match = Some(data)]
    ELSE self

(***************************************************************************)
(* Tokenizer events.  html.parser calls one handler per event; the model   *)
(* gives an event as a record and a document as the sequence of events its *)
(* text tokenizes to.                                                      *)
(***************************************************************************)
StartTag(tag, attrs) == [type |-> "start", tag |-> tag, attrs |-> attrs, data |-> <<>>]
EndTag(tag)          == [type |-> "end",   tag |-> tag, attrs |-> <<>>,  data |-> <<>>]
Data(data)           == [type |-> "data",  tag |-> <<>>, attrs |-> <<>>, data |-> data]

handle(self, e) ==
    IF e.type = "start" THEN handle_starttag(self, e.tag, e.attrs)
    ELSE IF e.type = "end" THEN handle_endtag(self, e.tag)
    ELSE handle_data(self, e.data)

\* html_parser.feed(html): every event in document order, up to an exception
RECURSIVE feed(_, _)
feed(self, doc) ==
    IF doc = <<>> \/ self.err # "none" THEN self
    ELSE feed(handle(self, Head(doc)), Tail(doc))

(***************************************************************************)
(* The inputs the specifications draw from                                 *)
(***************************************************************************)
TagA == <<"a">>
TagB == <<"b">>
Tags == {TagA, TagB}

AttrNames  == {"id", "class"}
AttrValues == {None, Some(<<>>), Some(<<"c">>), Some(<<"x">>),
               Some(<<"x", "c">>), Some(<<"d", " ", "c">>)}
Attrs      == {<<n, v>> : n \in AttrNames, v \in AttrValues}
\* attribute lists of at most two attributes
AttrLists  == {<<>>} \cup {<<a>> : a \in Attrs} \cup {<<a, b>> : a \in Attrs, b \in Attrs}

\* "a", "a b", "a  b", " a", "", " ", "#x", ".c", "b .c #x", ".", "#"
SelQueries ==
    { <<"a">>, <<"a", " ", "b">>, <<"a", " ", " ", "b">>, <<" ", "a">>, <<>>, <<" ">>,
      <<"#", "x">>, <<".", "c">>, <<"b", " ", ".", "c", " ", "#", "x">>,
      <<".">>, <<"#">> }

\* "a b", "a", "", ".c b"
MatcherQueries ==
    { <<"a", " ", "b">>, <<"a">>, <<>>, <<".", "c", " ", "b">> }

\* re.compile("B|X")
PatternBX == <<<<"B">>, <<"X">>>>
Regexes == {None, Some(PatternBX)}

StartEvents ==
    { StartTag(TagA, <<>>), StartTag(TagB, <<>>),
      StartTag(TagA, <<<<"class", Some(<<"d", " ", "c">>)>>>>),
      StartTag(TagB, <<<<"class", None>>>>) }
EndEvents  == {EndTag(t) : t \in Tags}
\* "A", "AXB", "B"
DataEvents == {Data(<<"A">>), Data(<<"A", "X", "B">>), Data(<<"B">>)}

(***************************************************************************)
(* SpecSelector: compile a selector string, then evaluate every step on    *)
(* one start-tag.                                                          *)
(***************************************************************************)
SelectorIdle ==
    /\ sel_pc = "idle" /\ sel_query = <<>> /\ sel_tag = <<>> /\ sel_attrs = <<>>
    /\ sel_steps = <<>> /\ sel_outcomes = <<>>

MatcherIdle ==
    /\ parser = HTMLParser_init(<<>>, None)
    /\ events = <<>>

PollIdle ==
    /\ pc = "idle" /\ args = <<>> /\ response = <<>> /\ result = None /\ prev = None
    /\ out = <<>> /\ fetched = <<>> /\ requests = 0 /\ failure = "none"

ExtractIdle ==
    /\ ex_pc = "idle" /\ ex_query = None /\ ex_regex = None /\ ex_runs = <<>>

SelectorInit ==
    /\ sel_pc = "init"
    /\ sel_query \in SelQueries
    /\ sel_tag \in Tags
    /\ sel_attrs \in AttrLists
    /\ sel_steps = <<>>
    /\ sel_outcomes = <<>>
    /\ MatcherIdle /\ PollIdle /\ ExtractIdle

\* HTMLParser.__init__: self._all_selectors
Compile ==
    /\ sel_pc = "init"
    /\ sel_steps' = HTMLParser_init(sel_query, None).all_selectors
    /\ sel_pc' = "compiled"
    /\ UNCHANGED <<sel_query, sel_tag, sel_attrs, sel_outcomes, mVars, pollVars, exVars>>

\* fn(tag, attrs) for every compiled step fn
Apply ==
    /\ sel_pc = "compiled"
    /\ sel_outcomes' = [k \in 1..Len(sel_steps) |-> get_selector(sel_steps[k], sel_tag, sel_attrs)]
    /\ sel_pc' = "applied"
    /\ UNCHANGED <<sel_query, sel_tag, sel_attrs, sel_steps, mVars, pollVars, exVars>>

SelectorNext == Compile \/ Apply

SpecSelector == SelectorInit /\ [][SelectorNext]_vars

(***************************************************************************)
(* SpecMatcher: a newly constructed HTMLParser handles the events of one   *)
(* document, one tokenizer callback at a time.                             *)
(***************************************************************************)
MatcherInit ==
    /\ \E query \in MatcherQueries, regex \in Regexes :
          parser = HTMLParser_init(query, regex)
    /\ events = <<>>
    /\ SelectorIdle /\ PollIdle /\ ExtractIdle

Feeding == parser.err = "none" /\ Len(events) < MaxEvents

OnStartTag ==
    /\ Feeding
    /\ \E e \in StartEvents :
          /\ parser' = handle_starttag(parser, e.tag, e.attrs)
          /\ events' = Append(events, e)
    /\ UNCHANGED <<selVars, pollVars, exVars>>

OnEndTag ==
    /\ Feeding
    /\ \E e \in EndEvents :
          /\ parser' = handle_endtag(parser, e.tag)
          /\ events' = Append(events, e)
    /\ UNCHANGED <<selVars, pollVars, exVars>>

OnData ==
    /\ Feeding
    /\ \E e \in DataEvents :
          /\ parser' = handle_data(parser, e.data)
          /\ events' = Append(events, e)
    /\ UNCHANGED <<selVars, pollVars, exVars>>

MatcherNext == OnStartTag \/ OnEndTag \/ OnData

SpecMatcher == MatcherInit /\ [][MatcherNext]_vars

(***************************************************************************)
(* Documents a server may send, each given as the events its text          *)
(* tokenizes to; response_body is the text itself.                         *)
(***************************************************************************)
TagUl == <<"u", "l">>
TagOl == <<"o", "l">>
TagLi == <<"l", "i">>
TagP  == <<"p">>

\* <ul><li>A</li><li id='b'>B</li></ul><ol><li>C</li><li class='d'>D</li></ol>
DocLists ==
    << StartTag(TagUl, <<>>),
         StartTag(TagLi, <<>>), Data(<<"A">>), EndTag(TagLi),
         StartTag(TagLi, <<<<"id", Some(<<"b">>)>>>>), Data(<<"B">>), EndTag(TagLi),
       EndTag(TagUl),
       StartTag(TagOl, <<>>),
         StartTag(TagLi, <<>>), Data(<<"C">>), EndTag(TagLi),
         StartTag(TagLi, <<<<"class", Some(<<"d">>)>>>>), Data(<<"D">>), EndTag(TagLi),
       EndTag(TagOl) >>
\* <ul><li>X</li></ul>
DocOneItem ==
    << StartTag(TagUl, <<>>), StartTag(TagLi, <<>>), Data(<<"X">>), EndTag(TagLi), EndTag(TagUl) >>
\* A<p>B</p>
DocText == << Data(<<"A">>), StartTag(TagP, <<>>), Data(<<"B">>), EndTag(TagP) >>
\* </p><li>A</li>
DocStrayEnd == << EndTag(TagP), StartTag(TagLi, <<>>), Data(<<"A">>), EndTag(TagLi) >>
\* <li class>A</li>
DocValueless == << StartTag(TagLi, <<<<"class", None>>>>), Data(<<"A">>), EndTag(TagLi) >>
\* the empty body
DocEmpty == <<>>

Docs == {DocLists, DocOneItem, DocText, DocStrayEnd, DocValueless, DocEmpty}

AttrNameText(name) == IF name = "id" THEN <<"i", "d">> ELSE <<"c", "l", "a", "s", "s">>

RECURSIVE AttrsText(_)
AttrsText(attrs) ==
    IF attrs = <<>> THEN <<>>
    ELSE LET a == Head(attrs)
         IN  <<" ">> \o AttrNameText(a[1])
                 \o (IF a[2] = None THEN <<>> ELSE <<"=", "'">> \o a[2][1] \o <<"'">>)
                 \o AttrsText(Tail(attrs))

EventText(e) ==
    IF e.type = "start" THEN <<"<">> \o e.tag \o AttrsText(e.attrs) \o <<">">>
    ELSE IF e.type = "end" THEN <<"<", "/">> \o e.tag \o <<">">>
    ELSE e.data

\* response.read().decode("utf-8") of a well-encoded body
response_body(doc) == Concat([i \in 1..Len(doc) |-> EventText(doc[i])])

\* What urlopen meets: no connection, or an HTTP response.
Responses ==
    { [kind |-> "URLError", status |-> 0, utf8 |-> TRUE, doc |-> DocEmpty],
      [kind |-> "http", status |-> 204, utf8 |-> TRUE, doc |-> DocEmpty],
      [kind |-> "http", status |-> 404, utf8 |-> TRUE, doc |-> DocText],
      [kind |-> "http", status |-> 200, utf8 |-> FALSE, doc |-> DocText] }
    \cup {[kind |-> "http", status |-> 200, utf8 |-> TRUE, doc |-> d] : d \in Docs}

\* bool(x) of an optional string
Truthy(x) == x # None /\ x # Some(<<>>)

\* A call's outcome: the exception it raises ("none": it returns), the value it
\* returns, and what it logs.
Returns(v, log) == [exc |-> "none", ret |-> v, log |-> log]
Raises(exc)     == [exc |-> exc, ret |-> None, log |-> <<>>]

\* Mutant of query_html: the regex branch is tried before the selector branch.
query_html_regex_first(html, query, regex) ==
    IF regex # None
    THEN Returns(re_search(regex[1], response_body(html)), <<>>)
    ELSE IF Truthy(query)
    THEN LET html_parser == feed(HTMLParser_init(query[1], regex), html)
         IN  IF html_parser.err # "none" THEN Raises(html_parser.err)
             ELSE Returns(html_parser.match, <<>>)
    ELSE Returns(None, <<>>)

query_html(html, query, regex) ==
    IF Truthy(query)
    THEN LET html_parser == feed(HTMLParser_init(query[1], regex), html)
         IN  IF html_parser.err # "none" THEN Raises(html_parser.err)
             ELSE Returns(html_parser.match, <<>>)
    ELSE IF regex # None
    THEN Returns(re_search(regex[1], response_body(html)), <<>>)
    ELSE Returns(None, <<>>)

\* urlopen raises URLError when the transport fails and, through its default
\* error handler, HTTPError for every status outside 200..299.  The warning for
\* another status is logging.warning(status, reason), whose formatting fails
\* inside the logging module and is reported there, not raised.
request_and_query(resp, whole, query, regex) ==
    IF resp.kind = "URLError" THEN Raises("URLError")
    ELSE IF resp.status < 200 \/ resp.status > 299 THEN Raises("HTTPError")
    ELSE IF resp.status # 200 THEN Returns(None, <<"logging error">>)
    ELSE IF ~resp.utf8 THEN Raises("UnicodeDecodeError")
    ELSE IF whole THEN Returns(Some(response_body(resp.doc)), <<>>)
    ELSE query_html(resp.doc, query, regex)

\* Mutant of report: the size is reported in whole mode, until_change or not.
report_size_when_whole(res, until_change, whole) ==
    IF res = None THEN "warning: no matches"
    ELSE IF whole THEN "info: bytes"
    ELSE "info: result"

\* the report after a fetch
report(res, until_change, whole) ==
    IF res = None THEN "warning: no matches"
    ELSE IF until_change /\ whole THEN "info: bytes"
    ELSE "info: result"

\* Mutant of changed: a change is any result that is not None.
changed_when_found(before, after) == after # None

\* prev != result
changed(before, after) == before # after

\* Mutant of notify: the diff is logged for any two results that are not None.
notify_diff_of_empty(before, after, whole, mac_sound) ==
    <<IF Truthy(mac_sound) THEN "afplay" ELSE "bell">>
        \o (IF whole /\ before # None /\ after # None THEN <<"info: diff">> ELSE <<>>)

\* what a detected change emits: the sound or the bell, then the diff
notify(before, after, whole, mac_sound) ==
    <<IF Truthy(mac_sound) THEN "afplay" ELSE "bell">>
        \o (IF whole /\ Truthy(before) /\ Truthy(after) THEN <<"info: diff">> ELSE <<>>)

\* Mutant of leaves_loop: the break does not look at until_change.
leaves_loop_on_any_change(is_changed, until_change) == is_changed

\* if prev != result: ... if until_change: break
leaves_loop(is_changed, until_change) == is_changed /\ until_change

\* while interval is not None
loop_test(interval) == IF interval # None THEN "sleep" ELSE "done"

(***************************************************************************)
(* SpecPoll: the program from the entry point's call of pepperoni on.     *)
(***************************************************************************)
\* -q: absent, "", "li", "ol li", "ul li", ".d"
PollQueries ==
    { None, Some(<<>>), Some(<<"l", "i">>), Some(<<"o", "l", " ", "l", "i">>),
      Some(<<"u", "l", " ", "l", "i">>), Some(<<".", "d">>) }

\* vars(args): --sound is an argument only where platform.system() is "Darwin"
ArgsDarwin ==
    [ whole : BOOLEAN, query : PollQueries, regex : Regexes, interval : {None, Some(5)},
      until_change : BOOLEAN, mac_sound : {Some(<<"p", "o", "p">>)}, verbose : {0} ]
ArgsElsewhere ==
    [ whole : BOOLEAN, query : PollQueries, regex : Regexes, interval : {None, Some(5)},
      until_change : BOOLEAN, verbose : {0} ]

PollInit ==
    /\ pc = "main"
    /\ args \in ArgsDarwin \cup ArgsElsewhere
    /\ response = <<>>
    /\ result = None /\ prev = None
    /\ out = <<>> /\ fetched = <<>>
    /\ requests = 0
    /\ failure = "none"
    /\ SelectorIdle /\ MatcherIdle /\ ExtractIdle

\* the entry point calls pepperoni with vars(args) as keyword arguments;
\* mac_sound is a required parameter
Main ==
    /\ pc = "main"
    /\ IF "mac_sound" \in DOMAIN args
       THEN pc' = "fetch" /\ failure' = failure
       ELSE pc' = "crashed" /\ failure' = "TypeError"
    /\ UNCHANGED <<args, response, result, prev, out, fetched, requests, selVars, mVars, exVars>>

\* the first request and its report, up to the loop test
FirstFetch ==
    /\ pc = "fetch"
    /\ \E resp \in Responses :
          LET r == request_and_query(resp, args.whole, args.query, args.regex)
          IN  /\ response' = resp
              /\ requests' = requests + 1
              /\ IF r.exc # "none"
                 THEN /\ pc' = "crashed" /\ failure' = r.exc
                      /\ out' = <<>>
                      /\ UNCHANGED <<result, fetched>>
                 ELSE /\ result' = r.ret
                      /\ fetched' = Append(fetched, r.ret)
                      /\ out' = r.log \o <<report(r.ret, args.until_change, args.whole)>>
                      /\ pc' = loop_test(args.interval)
                      /\ failure' = failure
    /\ UNCHANGED <<args, prev, selVars, mVars, exVars>>

\* logging.debug, time.sleep(interval)
Sleep ==
    /\ pc = "sleep"
    /\ requests < MaxFetches
    /\ out' = <<"debug: sleep", "sleep">>
    /\ pc' = "cycle"
    /\ UNCHANGED <<args, response, result, prev, fetched, requests, failure, selVars, mVars, exVars>>

\* one pass of the loop body after the sleep: request, report, compare, notify,
\* break or loop test
CycleFetch ==
    /\ pc = "cycle"
    /\ prev' = result
    /\ \E resp \in Responses :
          LET r == request_and_query(resp, args.whole, args.query, args.regex)
              is_changed == changed(result, r.ret)
          IN  /\ response' = resp
              /\ requests' = requests + 1
              /\ IF r.exc # "none"
                 THEN /\ pc' = "crashed" /\ failure' = r.exc
                      /\ out' = <<>>
                      /\ UNCHANGED <<result, fetched>>
                 ELSE /\ result' = r.ret
                      /\ fetched' = Append(fetched, r.ret)
                      /\ out' = r.log \o <<report(r.ret, args.until_change, args.whole)>>
                                  \o (IF is_changed
                                      THEN notify(result, r.ret, args.whole, args.mac_sound)
                                      ELSE <<>>)
                      /\ pc' = IF leaves_loop(is_changed, args.until_change)
                               THEN "done" ELSE loop_test(args.interval)
                      /\ failure' = failure
    /\ UNCHANGED <<args, selVars, mVars, exVars>>

PollNext == Main \/ FirstFetch \/ Sleep \/ CycleFetch

SpecPoll == PollInit /\ [][PollNext]_vars

(***************************************************************************)
(* SpecExtract: the extractor run on one document after another.  In the   *)
(* "call" runs query_html is called each time; `parser` holds the          *)
(* html_parser object of the last call, which the next call leaves behind. *)
(* In the other runs one HTMLParser is constructed, fed a document, reset, *)
(* and fed the next.                                                       *)
(***************************************************************************)

\* Mutant of construct: an object left by an earlier call with this selector and
\* regex is reset and used again.
construct_reusing(old, query, regex) ==
    IF old.all_selectors = compile_selectors(query) /\ old.regex = regex /\ old.err = "none"
    THEN reset(old)
    ELSE HTMLParser_init(query, regex)

\* html_parser = HTMLParser(query, regex): a new object, whatever `old` is
construct(old, query, regex) == HTMLParser_init(query, regex)

\* what a fed parser gives its caller
outcome(html_parser) ==
    IF html_parser.err # "none" THEN Raises(html_parser.err)
    ELSE Returns(html_parser.match, <<>>)

ExtractInit ==
    /\ ex_pc \in {"call", "fresh"}
    /\ ex_query \in (IF ex_pc = "call" THEN PollQueries ELSE PollQueries \ {None})
    /\ ex_regex \in Regexes
    /\ ex_runs = <<>>
    /\ parser = IF ex_pc = "fresh" THEN HTMLParser_init(ex_query[1], ex_regex)
                ELSE HTMLParser_init(<<>>, None)
    /\ events = <<>>
    /\ SelectorIdle /\ PollIdle

\* query_html(html, query, regex), its local html_parser kept in `parser`
QueryHtml ==
    /\ ex_pc = "call"
    /\ Len(ex_runs) < MaxRuns
    /\ \E html \in Docs :
          IF Truthy(ex_query)
          THEN LET html_parser == feed(construct(parser, ex_query[1], ex_regex), html)
               IN  /\ parser' = html_parser
                   /\ ex_runs' = Append(ex_runs, [doc |-> html, ret |-> outcome(html_parser)])
          ELSE /\ parser' = parser
               /\ ex_runs' = Append(ex_runs,
                                [doc |-> html, ret |-> query_html(html, ex_query, ex_regex)])
    /\ UNCHANGED <<ex_pc, ex_query, ex_regex, events, selVars, pollVars>>

\* html_parser.feed(html) on the one object
FeedDoc ==
    /\ ex_pc \in {"fresh", "reset"}
    /\ Len(ex_runs) < MaxRuns
    /\ \E html \in Docs :
          /\ parser' = feed(parser, html)
          /\ ex_runs' = Append(ex_runs, [doc |-> html, ret |-> outcome(parser')])
    /\ ex_pc' = "fed"
    /\ UNCHANGED <<ex_query, ex_regex, events, selVars, pollVars>>

\* html_parser.reset() after a feed that returned
Reset ==
    /\ ex_pc = "fed"
    /\ parser.err = "none"
    /\ parser' = reset(parser)
    /\ ex_pc' = "reset"
    /\ UNCHANGED <<ex_query, ex_regex, ex_runs, events, selVars, pollVars>>

ExtractNext == QueryHtml \/ FeedDoc \/ Reset

SpecExtract == ExtractInit /\ [][ExtractNext]_vars

(***************************************************************************)
(* What the claims speak of, read off the inputs alone: the event history  *)
(* and the selector string, not the parser's cursor and stack.             *)
(***************************************************************************)

\* The start-tags open after the events evs, outermost first.
RECURSIVE OpenAfter(_)
OpenAfter(evs) ==
    IF evs = <<>> THEN <<>>
    ELSE LET before == OpenAfter(SubSeq(evs, 1, Len(evs) - 1))
             e      == evs[Len(evs)]
         IN  IF e.type = "start" THEN Append(before, e)
             ELSE IF e.type = "end" /\ before # <<>> THEN SubSeq(before, 1, Len(before) - 1)
             ELSE before

\* The start-tags open when event i arrives.
OpenBefore(i) == OpenAfter(SubSeq(events, 1, i - 1))

\* Every end-tag so far closes the innermost open start-tag, by name.
Nested ==
    \A i \in 1..Len(events) :
        events[i].type = "end" =>
            /\ OpenBefore(i) # <<>>
            /\ OpenBefore(i)[Len(OpenBefore(i))].tag = events[i].tag

\* c is one of the pieces of value between single spaces.
IsElement(c, value) ==
    \E i \in 1..(Len(value) + 1) :
        LET j == i + Len(c) - 1
        IN  /\ j <= Len(value)
            /\ SubSeq(value, i, j) = c
            /\ \A k \in 1..Len(c) : c[k] # " "
            /\ i = 1 \/ value[i - 1] = " "
            /\ j = Len(value) \/ value[j + 1] = " "

\* The step of token s holds of a start-tag.
StepHolds(s, tag, attrs) ==
    IF s[1] = "#"
    THEN \E i \in 1..Len(attrs) :
            attrs[i][1] = "id" /\ attrs[i][2] # None /\ attrs[i][2][1] = StrTail(s)
    ELSE IF s[1] = "."
    THEN \E i \in 1..Len(attrs) :
            attrs[i][1] = "class" /\ attrs[i][2] # None /\ IsElement(StrTail(s), attrs[i][2][1])
    ELSE tag = s

\* The steps hold, in order, of some of the open start-tags `path`.
ChainSatisfied(steps, path) ==
    \E f \in [1..Len(steps) -> 1..Len(path)] :
        /\ \A k \in 1..Len(steps) : \A l \in 1..Len(steps) : k < l => f[k] < f[l]
        /\ \A k \in 1..Len(steps) : StepHolds(steps[k], path[f[k]].tag, path[f[k]].attrs)

TagOnly(steps) == \A k \in 1..Len(steps) : steps[k][1] \notin {"#", "."}

Least(S) == CHOOSE k \in S : \A j \in S : k <= j

\* The text events that arrive while the whole chain is satisfied.
TextUnderChain ==
    {i \in 1..Len(events) :
        events[i].type = "data" /\ ChainSatisfied(parser.all_selectors, OpenBefore(i))}

\* C1: for a selector of tag-name steps only, no regex, and a properly nested
\* stream, the recorded match is the text of the first text event at which the
\* open tags, outermost to innermost, contain the steps in order as a
\* subsequence, and none when there is no such text event.
C1_FirstTextUnderTagPath ==
    (TagOnly(parser.all_selectors) /\ parser.regex = None /\ Nested) =>
        parser.match = IF TextUnderChain = {} THEN None
                       ELSE Some(events[Least(TextUnderChain)].data)

\* C1's case: a complete balanced document whose first text event lies outside
\* the selector's path and whose match is a later text event.
C1_Witness ==
    /\ TagOnly(parser.all_selectors) /\ parser.regex = None /\ Nested
    /\ Len(parser.all_selectors) >= 1
    /\ Len(events) >= 1 /\ OpenAfter(events) = <<>>
    /\ events[1].type = "data"
    /\ parser.match # None /\ parser.match # Some(events[1].data)

\* C2: an end-tag that arrives while the stack is empty raises nothing and
\* leaves cursor, stack and recorded match as they were.
C2_ExcessEndTagIsNoOp ==
    [][(/\ parser.stack = <<>>
        /\ Len(events') = Len(events) + 1
        /\ events'[Len(events')].type = "end") => parser' = parser]_vars

\* C8: with a regex, the recorded match is the regex's first match inside the
\* first text event that arrives under a satisfied chain and contains a match;
\* text outside a satisfied chain never contributes, and the match is none when
\* no text under a satisfied chain contains one.
C8_RegexWithinChain ==
    parser.regex # None =>
        LET hits == {i \in TextUnderChain : re_search(parser.regex[1], events[i].data) # None}
        IN  parser.match = IF hits = {} THEN None
                           ELSE re_search(parser.regex[1], events[Least(hits)].data)

\* C8's case: the first text contains a match (X) but lies outside the chain; a
\* later text under the chain gives the result B.
C8_Witness ==
    /\ parser.regex # None
    /\ Len(parser.all_selectors) >= 1
    /\ Len(events) >= 1 /\ events[1] = Data(<<"A", "X", "B">>)
    /\ parser.match = Some(<<"B">>)

\* The maximal runs of non-space characters of s, as <<first, last>> positions.
TokenSpans(s) ==
    {sp \in (1..Len(s)) \X (1..Len(s)) :
        /\ sp[1] <= sp[2]
        /\ \A k \in sp[1]..sp[2] : s[k] # " "
        /\ sp[1] = 1 \/ s[sp[1] - 1] = " "
        /\ sp[2] = Len(s) \/ s[sp[2] + 1] = " "}

\* C9: the compiled selector has one step per non-empty token, in token order;
\* a step that returns returns true iff: for '#x' the tag has an id attribute
\* whose value is x; for '.c' it has a class attribute whose value, split on
\* single spaces, has c as a whole element; otherwise the tag name is the token.
C9_SelectorCompiler ==
    /\ sel_pc \in {"compiled", "applied"} =>
          /\ Len(sel_steps) = Cardinality(TokenSpans(sel_query))
          /\ \A sp \in TokenSpans(sel_query) :
                sel_steps[1 + Cardinality({o \in TokenSpans(sel_query) : o[1] < sp[1]})]
                    = SubSeq(sel_query, sp[1], sp[2])
    /\ sel_pc = "applied" =>
          \A k \in 1..Len(sel_steps) :
              sel_outcomes[k] \in {"True", "False"} =>
                  (sel_outcomes[k] = "True" <=> StepHolds(sel_steps[k], sel_tag, sel_attrs))

\* C9's case: "b .c #x" compiled to three steps and applied to
\* <b class="d c" id="x">, where all three hold.
C9_Witness ==
    /\ sel_pc = "applied"
    /\ sel_query = <<"b", " ", ".", "c", " ", "#", "x">>
    /\ sel_tag = TagB
    /\ sel_attrs = << <<"class", Some(<<"d", " ", "c">>)>>, <<"id", Some(<<"x">>)>> >>
    /\ sel_outcomes = <<"True", "True", "True">>

(***************************************************************************)
(* The poll loop                                                           *)
(***************************************************************************)

\* The last request_and_query returned and its report was made.
Fetched == pc \in {"sleep", "done"}

\* The server answered the last request with status 200 and a decodable body.
Got200 == requests >= 1 /\ response.kind = "http" /\ response.status = 200 /\ response.utf8

Count(seq, S) == Cardinality({i \in 1..Len(seq) : seq[i] \in S})

AlertsOut  == Count(out, {"afplay", "bell"})
ReportsOut == Count(out, {"warning: no matches", "info: bytes", "info: result"})

TextEvents(doc) == {i \in 1..Len(doc) : doc[i].type = "data"}

\* C3: extraction with the selector "" and the whole-body flag unset gives the
\* first text node of the document, for every document that has one.
C3_EmptySelectorFirstText ==
    (/\ Got200 /\ pc # "cycle"
     /\ ~args.whole /\ args.query = Some(<<>>)
     /\ TextEvents(response.doc) # {}) =>
        /\ Fetched
        /\ result = Some(response.doc[Least(TextEvents(response.doc))].data)

\* C4: with an interval set, a request of the loop that fails in the transport
\* does not end the program: the cycle's result is none and the loop goes on.
C4_TransportFailureSkipsCycle ==
    (/\ args.interval # None
     /\ requests >= 2 /\ response.kind = "URLError" /\ pc # "cycle") =>
        /\ Fetched
        /\ result = None

\* C5: the first fetch emits no alert; every later cycle emits exactly one alert
\* if its result differs from the result of the fetch before it, and none if the
\* two are equal (none compared as a value).
C5_AlertIffChanged ==
    Fetched =>
        LET n == Len(fetched)
        IN  AlertsOut = IF n >= 2 /\ fetched[n] # fetched[n - 1] THEN 1 ELSE 0

\* C5's case: three fetches, none then the same string twice: the third cycle
\* differs from the first fetch but not from the second, and emits no alert.
C5_Witness ==
    /\ Fetched /\ Len(fetched) = 3
    /\ fetched[1] = None /\ fetched[2] # None /\ fetched[3] = fetched[2]
    /\ AlertsOut = 0

\* C6: without an interval the program makes one request and one report and
\* returns; with an interval and until-change it returns right after the first
\* cycle whose result differs from the one before, having made no request after
\* it, and not before; with an interval and without until-change it never
\* returns, whatever changes.  (Returning is pc = "done"; an uncaught exception
\* of a request is C4's and C10's matter.)
C6_Termination ==
    LET n == Len(fetched)
        Changes == {k \in 2..n : fetched[k] # fetched[k - 1]}
    IN  /\ args.interval = None =>
              /\ pc \in {"main", "fetch", "done", "crashed"}
              /\ requests <= 1
              /\ pc = "done" => (requests = 1 /\ n = 1 /\ ReportsOut = 1)
        /\ (args.interval # None /\ args.until_change) =>
              /\ pc = "done" => (Changes = {n} /\ requests = n)
              /\ pc \in {"sleep", "cycle"} => Changes = {}
        /\ (args.interval # None /\ ~args.until_change) => pc # "done"

\* C6's case: until-change polling returned after its third request, the first
\* whose result differed.
C6_Witness ==
    /\ pc = "done" /\ args.interval # None /\ args.until_change
    /\ requests = 3 /\ Len(fetched) = 3
    /\ fetched[1] = fetched[2] /\ fetched[2] # fetched[3]

\* C7: the result of a fetch answered with 200 is the body when the whole-body
\* flag is set, whatever selector and regex are; else, with a (non-empty)
\* selector, the tag matcher's recorded match, the regex handed to the matcher;
\* else, with a regex, its first match in the raw body or none; else none.
C7_ModePrecedence ==
    (Fetched /\ Got200) =>
        result =
            IF args.whole THEN Some(response_body(response.doc))
            ELSE IF Truthy(args.query)
            THEN feed(HTMLParser_init(args.query[1], args.regex), response.doc).match
            ELSE IF args.regex # None
            THEN re_search(args.regex[1], response_body(response.doc))
            ELSE None

\* C7's case: selector "ol li" and regex B|X on the list document: the matcher
\* decides (none), although the regex matches in the raw body.
C7_Witness ==
    /\ Fetched /\ Got200
    /\ ~args.whole /\ args.query = Some(<<"o", "l", " ", "l", "i">>) /\ args.regex # None
    /\ response.doc = DocLists
    /\ re_search(args.regex[1], response_body(response.doc)) # None
    /\ result = None

\* C10: a response whose status is not 200 gives the result none for that
\* cycle and does not end the program.
C10_Non200IsNoMatch ==
    (requests >= 1 /\ response.kind = "http" /\ response.status # 200 /\ pc # "cycle") =>
        /\ Fetched
        /\ result = None

(***************************************************************************)
(* The extractor across documents                                          *)
(***************************************************************************)

\* C11: the extractor called again with the same body, selector and regex gives
\* the same result, whatever it was called with in between: nothing of an
\* earlier run (cursor, stack, recorded match) reaches a later one.
C11_SameInputSameResult ==
    ex_pc = "call" =>
        \A i \in 1..Len(ex_runs) : \A j \in 1..Len(ex_runs) :
            ex_runs[i].doc = ex_runs[j].doc => ex_runs[i].ret = ex_runs[j].ret

\* C11's case: a document without a match, then one with a match through the
\* tag matcher, then the first again, still without a match.
C11_Witness ==
    /\ ex_pc = "call" /\ Truthy(ex_query) /\ Len(ex_runs) = 3
    /\ ex_runs[1].doc = ex_runs[3].doc
    /\ ex_runs[1].ret = Returns(None, <<>>)
    /\ ex_runs[2].ret.exc = "none" /\ ex_runs[2].ret.ret # None
    /\ ex_runs[3].ret = Returns(None, <<>>)

\* C12: a matcher fed one document, reset and fed a second gives for the second
\* what a newly constructed matcher with the same selector and regex gives when
\* fed only that document.
C12_ResetEqualsFresh ==
    (ex_pc = "fed" /\ Len(ex_runs) >= 2) =>
        ex_runs[Len(ex_runs)].ret
            = outcome(feed(HTMLParser_init(ex_query[1], ex_regex), ex_runs[Len(ex_runs)].doc))

(***************************************************************************)
(* The matcher's cursor and stack                                          *)
(***************************************************************************)

OfType(evs, t) == Cardinality({i \in 1..Len(evs) : evs[i].type = t})

\* The step from `events` to `events'` handled one event of type t.
Handled(t) == Len(events') = Len(events) + 1 /\ events'[Len(events')].type = t

Top(stack) == stack[Len(stack)]

\* C13: while every event has been handled (none raised), the stack is as long
\* as start-tags minus end-tags handled; a start-tag pushes exactly one marker
\* on top; an end-tag, whatever its name, pops exactly the top marker and takes
\* one off the cursor if that marker was 'consumed', nothing otherwise.
C13_StackAccounting ==
    [][/\ parser'.err = "none" =>
            Len(parser'.stack) = OfType(events', "start") - OfType(events', "end")
       /\ (Handled("start") /\ parser'.err = "none") =>
            /\ Len(parser'.stack) = Len(parser.stack) + 1
            /\ SubSeq(parser'.stack, 1, Len(parser.stack)) = parser.stack
       /\ (Handled("end") /\ parser.stack # <<>>) =>
            /\ parser'.err = "none"
            /\ parser'.stack = SubSeq(parser.stack, 1, Len(parser.stack) - 1)
            /\ parser'.selector_cursor =
                   parser.selector_cursor - (IF Top(parser.stack) # None THEN 1 ELSE 0)
       /\ Handled("data") =>
            /\ parser'.stack = parser.stack
            /\ parser'.selector_cursor = parser.selector_cursor]_vars

\* C13's case: <a> consumed step 0 of a selector that starts with a, and the
\* end-tag </b>, of another name, popped its marker and took the cursor back.
C13_Witness ==
    /\ Len(parser.all_selectors) >= 1 /\ parser.all_selectors[1] = TagA
    /\ events = <<StartTag(TagA, <<>>), EndTag(TagB)>>
    /\ parser.stack = <<>> /\ parser.selector_cursor = 0 /\ parser.err = "none"

\* C14: once a match is recorded, no later start-tag, end-tag or text event of
\* the parse changes it.
C14_FirstMatchWins ==
    [][parser.match # None => parser'.match = parser.match]_vars

\* C14's case: B was recorded under the satisfied chain, and the text AXB that
\* followed under the same chain, where the regex finds X, left it B.
C14_Witness ==
    /\ parser.regex # None /\ parser.err = "none"
    /\ Len(events) >= 2
    /\ events[Len(events) - 1] = Data(<<"B">>)
    /\ events[Len(events)] = Data(<<"A", "X", "B">>)
    /\ parser.selector_cursor = Len(parser.all_selectors)
    /\ parser.match = Some(<<"B">>)

\* cursor within its range, equal to the number of consumed markers, which read
\* bottom to top 0, 1, ..., cursor - 1
CursorInvariant(self) ==
    LET consumed == {i \in 1..Len(self.stack) : self.stack[i] # None}
    IN  /\ 0 <= self.selector_cursor /\ self.selector_cursor <= Len(self.all_selectors)
        /\ self.selector_cursor = Cardinality(consumed)
        /\ \A i \in consumed :
              self.stack[i] = Some(Cardinality({j \in consumed : j < i}))

\* C18: as long as no end-tag has met an empty stack, the cursor invariant
\* holds; a start-tag moves the cursor by nothing or by one, and by one only
\* when there is a step at the cursor and that step holds of the tag.
C18_CursorDiscipline ==
    [][/\ CursorInvariant(parser)
       /\ parser'.err # "IndexError" => CursorInvariant(parser')
       /\ Handled("start") =>
            LET c == parser.selector_cursor
                e == events'[Len(events')]
            IN  /\ parser'.selector_cursor \in {c, c + 1}
                /\ parser'.selector_cursor = c + 1 =>
                      /\ c < Len(parser.all_selectors)
                      /\ StepHolds(parser.all_selectors[c + 1], e.tag, e.attrs)]_vars

\* C18's case: selector "a b": the second <a> matches the consumed step 0 and
\* does not move the cursor; the <b> after it consumes step 1.
C18_Witness ==
    /\ parser.all_selectors = <<TagA, TagB>>
    /\ events = <<StartTag(TagA, <<>>), StartTag(TagA, <<>>), StartTag(TagB, <<>>)>>
    /\ parser.stack = <<Some(0), None, Some(1)>>
    /\ parser.selector_cursor = 2

(***************************************************************************)
(* Reports, diffs and the sound option                                     *)
(***************************************************************************)

DiffsOut == Count(out, {"info: diff"})

\* C15: a cycle logs a diff exactly when it detected a change, whole is set, and
\* the results before and after are both non-empty strings; the diff is the
\* entry right after the alert and the last thing the cycle emits, the break on
\* until_change coming after it.
C15_DiffIffWholeAndNonEmpty ==
    Fetched =>
        LET n == Len(fetched)
            diff == /\ n >= 2 /\ fetched[n] # fetched[n - 1]
                    /\ args.whole
                    /\ Truthy(fetched[n - 1]) /\ Truthy(fetched[n])
        IN  /\ DiffsOut = IF diff THEN 1 ELSE 0
            /\ diff => /\ out[Len(out)] = "info: diff"
                       /\ out[Len(out) - 1] \in {"afplay", "bell"}

\* C15's case: in whole mode the body went from the empty string to a non-empty
\* one: the cycle emitted the alert and no diff.
C15_Witness ==
    /\ Fetched /\ Len(fetched) >= 2 /\ args.whole
    /\ fetched[Len(fetched) - 1] = Some(<<>>) /\ Truthy(fetched[Len(fetched)])
    /\ AlertsOut = 1 /\ DiffsOut = 0

\* C16: what a fetch that returned emits holds exactly one report, of the kind
\* that goes with the result and the flags, and no alert, diff or sleep before it.
C16_OneReportPerFetch ==
    Fetched =>
        /\ ReportsOut = 1
        /\ \E k \in 1..Len(out) :
              /\ out[k] = IF result = None THEN "warning: no matches"
                          ELSE IF args.whole /\ args.until_change THEN "info: bytes"
                          ELSE "info: result"
              /\ \A j \in 1..(k - 1) :
                    out[j] \notin {"afplay", "bell", "info: diff", "debug: sleep", "sleep"}

\* C16's case: a loop cycle in whole mode without until_change whose body
\* changed: the result itself was reported, then the alert followed.
C16_Witness ==
    /\ Fetched /\ Len(fetched) >= 2
    /\ args.whole /\ ~args.until_change /\ result # None
    /\ out[1] = "info: result" /\ AlertsOut = 1

\* C17: where the parsed arguments have no mac_sound the program started from
\* the entry point still gets to its first request.
C17_RunsWithoutSoundOption ==
    "mac_sound" \notin DOMAIN args => failure # "TypeError"

\* a reachable state of C15's positive side: a diff was logged
C15_DiffLogged == Fetched /\ DiffsOut = 1

(***************************************************************************)
(* Steps on attributes without a value                                     *)
(***************************************************************************)

\* C19: every compiled step applied to a start-tag returns true or false,
\* whatever the tag name and the attribute list, an attribute without a value
\* included.
C19_StepNeverRaises ==
    sel_pc = "applied" =>
        \A k \in 1..Len(sel_steps) : sel_outcomes[k] \in {"True", "False"}

====
